---- MODULE Spec2Model ----
(***************************************************************************)
(* The graph store and the declaration lowering of the analyzer            *)
(* (src/src/lib.rs).  The analyzer is a record                             *)
(*   [graph, builtins, dyn_builtins, user_types, panicked, log]            *)
(* threaded through the lowering functions exactly as `&mut self` is in    *)
(* the source.  Node handles are petgraph indices: 0-based, so handle h    *)
(* is element h+1 of graph.nodes.  `panicked` records that a panic!, a     *)
(* todo!, an unwrap or an expect has aborted the run; `log` is a ghost     *)
(* trace of what the current operation did (function bodies handed over,  *)
(* declarations lowered), used only to state properties.                   *)
(***************************************************************************)
EXTENDS Integers, Sequences, FiniteSets, TLC

VARIABLES graph, builtins, dyn_builtins, user_types, panicked, log, prev, last

vars == <<graph, builtins, dyn_builtins, user_types, panicked, log, prev, last>>

(* ------------------------------ bounds -------------------------------- *)

\* Operations are started only while the graph holds fewer nodes than this.
MaxNodes == 2
\* Longest field / parameter list of a directly lowered declaration.
MaxFields == 2
\* Longest return list of a function.
MaxReturns == 1
\* Longest part list of a source unit.
MaxParts == 2
\* Longest part list of a contract.
MaxContractParts == 1
\* Longest field, parameter or part list of a declaration that is itself a
\* part of a contract or of a source unit.
MaxPartFields == 0
\* add_edge is called directly only while the graph holds fewer edges than this.
MaxEdges == 1
\* Largest decimal digit used in a literal's mantissa and exponent.
MaxDigit == 1

(* ------------------------------ helpers ------------------------------- *)

SeqsUpTo(S, n) == UNION {[1..k -> S] : k \in 0..n}

\* HashMap::insert
Insert(m, k, v) == [x \in (DOMAIN m) \cup {k} |-> IF x = k THEN v ELSE m[x]]

EmptyMap == [x \in {} |-> 0]

\* The pair (analyzer after the call, value returned).
R(a, r) == [a |-> a, ret |-> r]

Panic(a) == [a EXCEPT !.panicked = TRUE]

Logged(a, ev) == [a EXCEPT !.log = Append(@, ev)]

(* ------------------------------- nodes -------------------------------- *)

Node_Builtin(b) == [kind |-> "Builtin", ty |-> b]
Node_DynBuiltin(inner) == [kind |-> "DynBuiltin", inner |-> inner]
Node_SourceUnit(file_no) == [kind |-> "SourceUnit", file_no |-> file_no]
Node_SourceUnitPart(file_no, unit_part) ==
    [kind |-> "SourceUnitPart", file_no |-> file_no, unit_part |-> unit_part]
Node_Contract(name) == [kind |-> "Contract", name |-> name]
Node_Function(name) == [kind |-> "Function", name |-> name]
Node_Struct(name) == [kind |-> "Struct", name |-> name]
Node_Enum(name) == [kind |-> "Enum", name |-> name]
Node_Error(name) == [kind |-> "Error", name |-> name]
Node_Unresolved(name) == [kind |-> "Unresolved", name |-> name]
Node_Concrete(size, val) == [kind |-> "Concrete", size |-> size, val |-> val]
Node_Context(func) == [kind |-> "Context", func |-> func]
\* Field, ErrorParam, FunctionParam, FunctionReturn, Var, Ty: a typed, named item.
Node_Item(kind, ty, name) == [kind |-> kind, ty |-> ty, name |-> name]

(* ----------------------------- GraphLike ------------------------------ *)

has_node(a, h) == h \in 0..(Len(a.graph.nodes) - 1)

\* Removes the node instead of handing out a reference to it.
node_mut_removing(a, h, n) ==
    IF has_node(a, h)
    THEN [a EXCEPT !.graph.nodes =
             SubSeq(@, 1, h) \o SubSeq(@, h + 2, Len(@))]
    ELSE Panic(a)

add_node(a, n) ==
    R([a EXCEPT !.graph.nodes = Append(@, n)], Len(a.graph.nodes))

\* node(h); callers check has_node first: the source's expect() panics otherwise.
node(a, h) == a.graph.nodes[h + 1]

\* `*self.node_mut(h) = n`
node_mut(a, h, n) ==
    IF has_node(a, h)
    THEN [a EXCEPT !.graph.nodes[h + 1] = n]
    ELSE Panic(a)

\* petgraph's add_edge panics when an endpoint is not in the graph.
add_edge(a, from_node, to_node, edge) ==
    IF has_node(a, from_node) /\ has_node(a, to_node)
    THEN [a EXCEPT !.graph.edges =
             Append(@, [from |-> from_node, to |-> to_node, edge |-> edge])]
    ELSE Panic(a)

(* ---------------------------- expressions ----------------------------- *)

\* Option<T>: <<>> is None, <<x>> is Some(x).
None == <<>>
Some(x) == <<x>>

Names == {"A", "B"}

E_Type(ty) == [k |-> "Type", ty |-> ty]
E_Variable(name) == [k |-> "Variable", name |-> name]
E_ArraySubscript(inner, index) ==
    [k |-> "ArraySubscript", inner |-> inner, index |-> index]
E_NumberLiteral(int, exp) == [k |-> "NumberLiteral", int |-> int, exp |-> exp]
E_Other == [k |-> "Other"]

\* Builtin::try_from_ty: the elementary types have a builtin, a mapping or a
\* function type has none.
try_from_ty(ty) == IF ty \in {"uint256", "bool"} THEN Some(ty) ELSE None

\* VarType::try_from_idx: the kinds of node that denote a type.
VarTypeKinds ==
    {"Builtin", "DynBuiltin", "Contract", "Struct", "Enum", "Ty", "Unresolved"}

\* "ok": Some(var_type), keyed by the handle; "none": None; "panic": node() failed.
try_from_idx(a, idx) ==
    IF ~has_node(a, idx) THEN "panic"
    ELSE IF node(a, idx).kind \in VarTypeKinds THEN "ok" ELSE "none"

\* U256::from_dec_str on a string of decimal digits.
RECURSIVE from_dec_str(_)
from_dec_str(s) ==
    IF s = <<>> THEN 0
    ELSE 10 * from_dec_str(SubSeq(s, 1, Len(s) - 1)) + s[Len(s)]

\* U256::pow; the bounds keep every result far below 2^256, where it panics.
RECURSIVE pow(_, _)
pow(b, e) == IF e = 0 THEN 1 ELSE b * pow(b, e - 1)

number_literal(int, exp) ==
    IF exp # <<>> THEN pow(from_dec_str(int), from_dec_str(exp))
    ELSE from_dec_str(int)

\* The Type arm of parse_expr.
parse_expr_type(a, ty) ==
    IF try_from_ty(ty) # None
    THEN LET builtin == try_from_ty(ty)[1] IN
         IF builtin \in DOMAIN a.builtins
         THEN R(a, a.builtins[builtin])
         ELSE LET idx == add_node(a, Node_Builtin(builtin)) IN
              R([idx.a EXCEPT !.builtins = Insert(@, builtin, idx.ret)], idx.ret)
    ELSE R(a, 0)

\* Adds the placeholder without registering the name.
parse_expr_variable_unregistered(a, name) ==
    IF name \in DOMAIN a.user_types
    THEN R(a, a.user_types[name])
    ELSE add_node(a, Node_Unresolved(name))

\* The Variable arm of parse_expr.
parse_expr_variable(a, name) ==
    IF name \in DOMAIN a.user_types
    THEN R(a, a.user_types[name])
    ELSE LET n == add_node(a, Node_Unresolved(name)) IN
         R([n.a EXCEPT !.user_types = Insert(@, name, n.ret)], n.ret)

\* The ArraySubscript(_, ty_expr, None) arm, after ty_expr has been lowered to
\* inner_ty.  DynBuiltin::Array(var_type) is keyed by the handle of the type.
parse_expr_array(a, inner_ty) ==
    IF try_from_idx(a, inner_ty) = "ok"
    THEN LET dyn_b == inner_ty IN
         IF dyn_b \in DOMAIN a.dyn_builtins
         THEN R(a, a.dyn_builtins[dyn_b])
         ELSE LET idx == add_node(a, Node_DynBuiltin(dyn_b)) IN
              R([idx.a EXCEPT !.dyn_builtins = Insert(@, dyn_b, idx.ret)], idx.ret)
    ELSE R(Panic(a), 0)

\* The NumberLiteral arm of parse_expr.
parse_expr_number(a, int, exp) ==
    add_node(a, Node_Concrete(256, number_literal(int, exp)))

RECURSIVE parse_expr(_, _)
parse_expr(a, expr) ==
    IF a.panicked THEN R(a, 0)
    ELSE CASE expr.k = "Type" -> parse_expr_type(a, expr.ty)
           [] expr.k = "Variable" -> parse_expr_variable(a, expr.name)
           [] expr.k = "ArraySubscript" /\ expr.index = None ->
                LET inner_ty == parse_expr(a, expr.inner) IN
                IF inner_ty.a.panicked THEN inner_ty
                ELSE parse_expr_array(inner_ty.a, inner_ty.ret)
           [] expr.k = "ArraySubscript" /\ expr.index # None ->
                LET inner_ty == parse_expr(a, expr.inner)
                    index_ty == parse_expr(inner_ty.a, expr.index[1])
                IN  R(index_ty.a, 0)
           [] expr.k = "NumberLiteral" -> parse_expr_number(a, expr.int, expr.exp)
           [] OTHER -> R(a, 0)

(* ------------------- constructors of the item nodes ------------------- *)

\* Field::new, ErrorParam::new, FunctionParam::new, FunctionReturn::new,
\* Var::new and Ty::new lower the item's type expression with parse_expr and
\* keep the handle it returns.
Field_new(a, field) ==
    LET r == parse_expr(a, field.ty) IN R(r.a, Node_Item("Field", r.ret, field.name))

ErrorParam_new(a, field) ==
    LET r == parse_expr(a, field.ty) IN
    R(r.a, Node_Item("ErrorParam", r.ret, field.name))

FunctionParam_new(a, input) ==
    LET r == parse_expr(a, input.ty) IN
    R(r.a, Node_Item("FunctionParam", r.ret, input.name))

FunctionReturn_new(a, output) ==
    LET r == parse_expr(a, output.ty) IN
    R(r.a, Node_Item("FunctionReturn", r.ret, output.name))

Var_new(a, var_def, in_contract) ==
    LET r == parse_expr(a, var_def.ty) IN
    R(r.a, [kind |-> "Var", ty |-> r.ret, name |-> var_def.name,
            in_contract |-> in_contract])

Ty_new(a, ty_def) ==
    LET r == parse_expr(a, ty_def.ty) IN R(r.a, Node_Item("Ty", r.ret, ty_def.name))

(* ------------------------ the context builder ------------------------- *)

\* The identifiers of a body, resolved in order as references to names; each
\* is logged with the handle it resolved to and whether a node was added.
RECURSIVE ctx_idents(_, _, _)
ctx_idents(a, idents, func_node) ==
    IF idents = <<>> \/ a.panicked THEN a
    ELSE LET r == parse_expr(a, E_Variable(Head(idents)))
             ev == [ev |-> "ref", func |-> func_node, name |-> Head(idents),
                    ret |-> r.ret,
                    fresh |-> Len(r.a.graph.nodes) # Len(a.graph.nodes)]
         IN  ctx_idents(Logged(r.a, ev), Tail(idents), func_node)

\* parse_ctx_statement(body, false, Some(func_node)): an entry context anchored
\* at the function, then the walk of the body.
parse_ctx_statement(a, body, func_node) ==
    LET ctx == add_node(a, Node_Context(func_node))
        e == add_edge(ctx.a, ctx.ret, func_node, "Context")
    IN  ctx_idents(e, body, func_node)

(* ------------------------ declaration lowering ------------------------ *)

parse_enum_def(a, enum_def) ==
    LET name == enum_def.name IN
    IF name \in DOMAIN a.user_types
    THEN LET user_ty_node == a.user_types[name] IN
         R(node_mut(a, user_ty_node, Node_Enum(name)), user_ty_node)
    ELSE LET r == add_node(a, Node_Enum(name)) IN
         R([r.a EXCEPT !.user_types = Insert(@, name, r.ret)], r.ret)

\* Lowers the fields from the last to the first.
RECURSIVE struct_fields_backwards(_, _, _)
struct_fields_backwards(a, fields, strukt_node) ==
    IF fields = <<>> \/ a.panicked THEN a
    ELSE LET f == Field_new(a, fields[Len(fields)]) IN
         IF f.a.panicked THEN f.a
         ELSE LET field_node == add_node(f.a, f.ret)
                  e == add_edge(field_node.a, field_node.ret, strukt_node, "Field")
              IN  struct_fields_backwards(e, SubSeq(fields, 1, Len(fields) - 1),
                                          strukt_node)

RECURSIVE struct_fields(_, _, _)
struct_fields(a, fields, strukt_node) ==
    IF fields = <<>> \/ a.panicked THEN a
    ELSE LET f == Field_new(a, Head(fields)) IN
         IF f.a.panicked THEN f.a
         ELSE LET field_node == add_node(f.a, f.ret)
                  e == add_edge(field_node.a, field_node.ret, strukt_node, "Field")
              IN  struct_fields(e, Tail(fields), strukt_node)

\* Always a fresh node, whatever the name table holds.
struct_node_fresh(a, name) ==
    LET r == add_node(a, Node_Struct(name)) IN
    R([r.a EXCEPT !.user_types = Insert(@, name, r.ret)], r.ret)

\* The struct's own node: `let strukt_node = if let Some(user_ty_node) ...`.
struct_node(a, name) ==
    IF name \in DOMAIN a.user_types
    THEN LET user_ty_node == a.user_types[name] IN
         R(node_mut(a, user_ty_node, Node_Struct(name)), user_ty_node)
    ELSE LET r == add_node(a, Node_Struct(name)) IN
         R([r.a EXCEPT !.user_types = Insert(@, name, r.ret)], r.ret)

parse_struct_def(a, struct_def) ==
    LET strukt_node == struct_node(a, struct_def.name) IN
    R(struct_fields(strukt_node.a, struct_def.fields, strukt_node.ret),
      strukt_node.ret)

RECURSIVE err_fields(_, _, _)
err_fields(a, fields, err_node) ==
    IF fields = <<>> \/ a.panicked THEN a
    ELSE LET p == ErrorParam_new(a, Head(fields)) IN
         IF p.a.panicked THEN p.a
         ELSE LET field_node == add_node(p.a, p.ret)
                  e == add_edge(field_node.a, field_node.ret, err_node, "ErrorParam")
              IN  err_fields(e, Tail(fields), err_node)

parse_err_def(a, err_def) ==
    LET err_node == add_node(a, Node_Error(err_def.name)) IN
    R(err_fields(err_node.a, err_def.fields, err_node.ret), err_node.ret)

RECURSIVE func_params(_, _, _)
func_params(a, params, func_node) ==
    IF params = <<>> \/ a.panicked THEN a
    ELSE IF Head(params) = None THEN func_params(a, Tail(params), func_node)
    ELSE LET p == FunctionParam_new(a, Head(params)[1]) IN
         IF p.a.panicked THEN p.a
         ELSE LET input_node == add_node(p.a, p.ret)
                  e == add_edge(input_node.a, input_node.ret, func_node,
                                "FunctionParam")
              IN  func_params(e, Tail(params), func_node)

RECURSIVE func_returns(_, _, _)
func_returns(a, returns, func_node) ==
    IF returns = <<>> \/ a.panicked THEN a
    ELSE IF Head(returns) = None THEN func_returns(a, Tail(returns), func_node)
    ELSE LET p == FunctionReturn_new(a, Head(returns)[1]) IN
         IF p.a.panicked THEN p.a
         ELSE LET output_node == add_node(p.a, p.ret)
                  e == add_edge(output_node.a, output_node.ret, func_node,
                                "FunctionReturn")
              IN  func_returns(e, Tail(returns), func_node)

\* The function's own node: `let func_node = if let Some(user_ty_node) ...`.
func_node_of(a, name) ==
    IF name \in DOMAIN a.user_types
    THEN LET user_ty_node == a.user_types[name] IN
         R(node_mut(a, user_ty_node, Node_Function(name)), user_ty_node)
    ELSE LET r == add_node(a, Node_Function(name)) IN
         R([r.a EXCEPT !.user_types = Insert(@, name, r.ret)], r.ret)

\* The hand-over of the body; the "body" event keeps the graph and the name
\* table as they are at that moment.
func_body(a, func_def, func_node) ==
    IF func_def.body # None /\ ~a.panicked
    THEN parse_ctx_statement(
             Logged(a, [ev |-> "body", func |-> func_node, def |-> func_def,
                        graph |-> a.graph, user_types |-> a.user_types]),
             func_def.body[1], func_node)
    ELSE a

\* Hands the body over before the parameters and returns are lowered.
parse_func_def_body_first(a, func_def) ==
    IF func_def.name = None THEN R(Panic(a), 0)
    ELSE LET func_node == func_node_of(a, func_def.name[1])
             b == func_body(func_node.a, func_def, func_node.ret)
             p == func_params(b, func_def.params, func_node.ret)
             r == func_returns(p, func_def.returns, func_node.ret)
         IN  R(r, func_node.ret)

parse_func_def(a, func_def) ==
    IF func_def.name = None THEN R(Panic(a), 0)
    ELSE LET func_node == func_node_of(a, func_def.name[1])
             p == func_params(func_node.a, func_def.params, func_node.ret)
             r == func_returns(p, func_def.returns, func_node.ret)
         IN  R(func_body(r, func_def, func_node.ret), func_node.ret)

parse_var_def(a, var_def, in_contract) ==
    LET var == Var_new(a, var_def, in_contract) IN
    IF var.a.panicked THEN R(var.a, 0)
    ELSE LET var_node == add_node(var.a, var.ret) IN
         R([var_node.a EXCEPT !.user_types = Insert(@, var_def.name, var_node.ret)],
           var_node.ret)

parse_ty_def(a, ty_def) ==
    LET ty == Ty_new(a, ty_def) IN
    IF ty.a.panicked THEN R(ty.a, 0) ELSE add_node(ty.a, ty.ret)

\* `let node = ...; self.add_edge(node, owner, kind)` of a part's match arm.
linked(r, owner, kind) ==
    IF r.a.panicked THEN r.a ELSE add_edge(r.a, r.ret, owner, kind)

contract_part(a, cpart, con_node) ==
    CASE cpart.p = "StructDefinition" ->
            linked(parse_struct_def(a, cpart.def), con_node, "Struct")
      [] cpart.p = "EnumDefinition" ->
            linked(parse_enum_def(a, cpart.def), con_node, "Enum")
      [] cpart.p = "ErrorDefinition" ->
            linked(parse_err_def(a, cpart.def), con_node, "Error")
      [] cpart.p = "VariableDefinition" ->
            linked(parse_var_def(a, cpart.def, TRUE), con_node, "Var")
      [] cpart.p = "FunctionDefinition" ->
            linked(parse_func_def(a, cpart.def), con_node, "Func")
      [] cpart.p = "TypeDefinition" ->
            linked(parse_ty_def(a, cpart.def), con_node, "Ty")
      [] OTHER -> Panic(a)

RECURSIVE contract_parts(_, _, _)
contract_parts(a, parts, con_node) ==
    IF parts = <<>> \/ a.panicked THEN a
    ELSE contract_parts(contract_part(a, Head(parts), con_node), Tail(parts),
                        con_node)

parse_contract_def(a, contract_def) ==
    LET con_node == add_node(a, Node_Contract(contract_def.name)) IN
    R(contract_parts(con_node.a, contract_def.parts, con_node.ret), con_node.ret)

source_unit_part(a, sup, sup_node) ==
    CASE sup.p = "ContractDefinition" ->
            linked(parse_contract_def(a, sup.def), sup_node, "Contract")
      [] sup.p = "StructDefinition" ->
            linked(parse_struct_def(a, sup.def), sup_node, "Struct")
      [] sup.p = "EnumDefinition" ->
            linked(parse_enum_def(a, sup.def), sup_node, "Enum")
      [] sup.p = "ErrorDefinition" ->
            linked(parse_err_def(a, sup.def), sup_node, "Error")
      [] sup.p = "VariableDefinition" ->
            linked(parse_var_def(a, sup.def, FALSE), sup_node, "Var")
      [] sup.p = "FunctionDefinition" ->
            linked(parse_func_def(a, sup.def), sup_node, "Func")
      [] sup.p = "TypeDefinition" ->
            linked(parse_ty_def(a, sup.def), sup_node, "Ty")
      [] OTHER -> Panic(a)

parse_source_unit_part(a, sup, file_no, unit_part, parent) ==
    LET sup_node == add_node(a, Node_SourceUnitPart(file_no, unit_part))
        e == add_edge(sup_node.a, sup_node.ret, parent, "Part")
    IN  IF e.panicked THEN R(e, 0)
        ELSE R(source_unit_part(e, sup, sup_node.ret), sup_node.ret)

\* The parts from position unit_part on (enumerate() counts from 0).
RECURSIVE source_unit_parts(_, _, _, _, _)
source_unit_parts(a, parts, file_no, unit_part, parent) ==
    IF parts = <<>> \/ a.panicked THEN a
    ELSE source_unit_parts(
             parse_source_unit_part(a, Head(parts), file_no, unit_part, parent).a,
             Tail(parts), file_no, unit_part + 1, parent)

parse_source_unit(a, source_unit, file_no, parent) ==
    source_unit_parts(a, source_unit, file_no, 0, parent)

\* src is what solang_parser::parse makes of the text: Err, or Ok(source unit).
parse(a, src, file_no) ==
    IF src.ok
    THEN LET parent == add_node(a, Node_SourceUnit(file_no)) IN
         R(parse_source_unit(parent.a, src.unit, file_no, parent.ret),
           Some(parent.ret))
    ELSE R(Panic(a), None)

\* Adds a Builtin node on every call, without looking the type up.
builtin_or_add_always_adds(a, builtin) ==
    LET idx == add_node(a, Node_Builtin(builtin)) IN
    R([idx.a EXCEPT !.builtins = Insert(@, builtin, idx.ret)], idx.ret)

\* AnalyzerLike::builtin_or_add
builtin_or_add(a, builtin) ==
    IF builtin \in DOMAIN a.builtins
    THEN R(a, a.builtins[builtin])
    ELSE LET idx == add_node(a, Node_Builtin(builtin)) IN
         R([idx.a EXCEPT !.builtins = Insert(@, builtin, idx.ret)], idx.ret)

(* ------------------------------- inputs ------------------------------- *)

Digits == 0..MaxDigit
Mantissas == {<<d>> : d \in Digits} \cup {<<1, 0>>}
Exponents == {<<>>} \cup {<<d>> : d \in Digits}

TypeExprs ==
    {E_Type(t) : t \in {"uint256", "bool", "mapping"}}
        \cup {E_Variable(n) : n \in Names}
BaseExprs ==
    TypeExprs \cup {E_NumberLiteral(m, e) : m \in Mantissas, e \in Exponents}
        \cup {E_Other}
Exprs ==
    BaseExprs
        \cup {E_ArraySubscript(i, None) : i \in TypeExprs}
        \cup {E_ArraySubscript(i, Some(j)) :
                 i \in {E_Variable(n) : n \in Names},
                 j \in {E_Variable(n) : n \in Names} \cup {E_NumberLiteral(<<1>>, <<>>)}}

\* The names that types of fields, parameters and variables refer to.
RefNames == {"B"}
ItemTys == {E_Type("uint256")} \cup {E_Variable(n) : n \in RefNames}
Items == {[ty |-> t, name |-> "x"] : t \in ItemTys}
OptItems == {None} \cup {Some(i) : i \in Items}
\* No body, or a body that refers to one name.
Bodies == {None} \cup {Some(<<n>>) : n \in Names}

\* The declarations named from ns whose field and parameter lists are no
\* longer than k (l for a function's returns).
StructDefsOf(ns, k) ==
    {[name |-> n, fields |-> f] : n \in ns, f \in SeqsUpTo(Items, k)}
EnumDefsOf(ns) == {[name |-> n] : n \in ns}
ErrorDefsOf(ns, k) ==
    {[name |-> n, fields |-> f] : n \in ns, f \in SeqsUpTo(Items, k)}
FuncDefsOf(ns, k, l) ==
    {[name |-> n, params |-> p, returns |-> r, body |-> b] :
        n \in {None} \cup {Some(x) : x \in ns}, p \in SeqsUpTo(OptItems, k),
        r \in SeqsUpTo(OptItems, l), b \in Bodies}
VarDefsOf(ns) == {[name |-> n, ty |-> t] : n \in ns, t \in ItemTys}
TyDefsOf(ns) == {[name |-> n, ty |-> t] : n \in ns, t \in {E_Type("uint256")}}

\* The names declared by the parts of a contract or of a source unit.
PartNames == {"B"}

Part(p, defs) == {[p |-> p, def |-> d] : d \in defs}
Unsupported(ps) == {[p |-> p] : p \in ps}

ContractParts ==
    Part("StructDefinition", StructDefsOf(PartNames, MaxPartFields))
        \cup Part("EnumDefinition", EnumDefsOf(PartNames))
        \cup Part("ErrorDefinition", ErrorDefsOf(PartNames, MaxPartFields))
        \cup Part("VariableDefinition", VarDefsOf(PartNames))
        \cup Part("FunctionDefinition",
                 FuncDefsOf(PartNames, MaxPartFields, MaxPartFields))
        \cup Part("TypeDefinition", TyDefsOf(PartNames))
        \cup Unsupported({"EventDefinition", "Annotation", "Using", "StraySemicolon"})

ContractDefsOf(ns, k) ==
    {[name |-> n, parts |-> ps] : n \in ns, ps \in SeqsUpTo(ContractParts, k)}

SourceUnitParts ==
    Part("ContractDefinition", ContractDefsOf(PartNames, MaxPartFields))
        \cup Part("StructDefinition", StructDefsOf(PartNames, MaxPartFields))
        \cup Part("EnumDefinition", EnumDefsOf(PartNames))
        \cup Part("ErrorDefinition", ErrorDefsOf(PartNames, MaxPartFields))
        \cup Part("VariableDefinition", VarDefsOf(PartNames))
        \cup Part("FunctionDefinition",
                 FuncDefsOf(PartNames, MaxPartFields, MaxPartFields))
        \cup Part("TypeDefinition", TyDefsOf(PartNames))
        \cup Unsupported({"EventDefinition", "Annotation", "Using", "StraySemicolon",
                          "PragmaDirective", "ImportDirective"})

SourceUnits == SeqsUpTo(SourceUnitParts, MaxParts)
Sources == {[ok |-> FALSE]} \cup {[ok |-> TRUE, unit |-> u] : u \in SourceUnits}
FileNos == {0}

(* ------------------------------- state -------------------------------- *)

\* Analyzer::default(), before any source is parsed.
Init ==
    /\ graph = [nodes |-> <<>>, edges |-> <<>>]
    /\ builtins = EmptyMap
    /\ dyn_builtins = EmptyMap
    /\ user_types = EmptyMap
    /\ panicked = FALSE
    /\ log = <<>>
    /\ prev = [graph |-> [nodes |-> <<>>, edges |-> <<>>], builtins |-> EmptyMap,
               dyn_builtins |-> EmptyMap, user_types |-> EmptyMap]
    /\ last = [op |-> "default", arg |-> <<>>, ret |-> 0]

\* The analyzer a call starts with.
Self ==
    [graph |-> graph, builtins |-> builtins, dyn_builtins |-> dyn_builtins,
     user_types |-> user_types, panicked |-> FALSE, log |-> <<>>]

Ready(bound) == ~panicked /\ Len(graph.nodes) < bound

\* The call's effect on the analyzer; prev and last keep what it started from,
\* what it was given and what it returned.
Commit(op, arg, r) ==
    /\ graph' = r.a.graph
    /\ builtins' = r.a.builtins
    /\ dyn_builtins' = r.a.dyn_builtins
    /\ user_types' = r.a.user_types
    /\ panicked' = r.a.panicked
    /\ log' = r.a.log
    /\ prev' = [graph |-> graph, builtins |-> builtins,
                dyn_builtins |-> dyn_builtins, user_types |-> user_types]
    /\ last' = [op |-> op, arg |-> arg, ret |-> r.ret]

(* ------------------------------ actions ------------------------------- *)

ParseExpr(expr) ==
    Ready(MaxNodes) /\ Commit("parse_expr", expr, parse_expr(Self, expr))

BuiltinOrAdd(builtin) ==
    Ready(MaxNodes) /\ Commit("builtin_or_add", builtin, builtin_or_add(Self, builtin))

ParseEnumDef(def) ==
    Ready(MaxNodes) /\ Commit("parse_enum_def", def, parse_enum_def(Self, def))

ParseStructDef(def) ==
    Ready(MaxNodes) /\ Commit("parse_struct_def", def, parse_struct_def(Self, def))

ParseErrDef(def) ==
    Ready(MaxNodes) /\ Commit("parse_err_def", def, parse_err_def(Self, def))

ParseFuncDef(def) ==
    Ready(MaxNodes) /\ Commit("parse_func_def", def, parse_func_def(Self, def))

ParseVarDef(def, in_contract) ==
    Ready(MaxNodes)
        /\ Commit("parse_var_def", [def |-> def, in_contract |-> in_contract],
                  parse_var_def(Self, def, in_contract))

ParseTyDef(def) ==
    Ready(MaxNodes) /\ Commit("parse_ty_def", def, parse_ty_def(Self, def))

ParseContractDef(def) ==
    Ready(MaxNodes) /\ Commit("parse_contract_def", def, parse_contract_def(Self, def))

ParseSourceUnitPart(sup, file_no, unit_part, parent) ==
    Ready(MaxNodes)
        /\ Commit("parse_source_unit_part",
                  [sup |-> sup, file_no |-> file_no, unit_part |-> unit_part,
                   parent |-> parent],
                  parse_source_unit_part(Self, sup, file_no, unit_part, parent))

\* parse, and with it parse_source_unit, which is its loop over the parts.
Parse(src, file_no) ==
    Ready(MaxNodes)
        /\ Commit("parse", [src |-> src, file_no |-> file_no],
                  parse(Self, src, file_no))

\* parse_expr, builtin_or_add and the lowering of one declaration.
Lower ==
    \/ \E expr \in Exprs : ParseExpr(expr)
    \/ \E b \in {"uint256", "bool"} : BuiltinOrAdd(b)
    \/ \E def \in EnumDefsOf(Names) : ParseEnumDef(def)
    \/ \E def \in StructDefsOf(Names, MaxFields) : ParseStructDef(def)
    \/ \E def \in ErrorDefsOf(Names, MaxFields) : ParseErrDef(def)
    \/ \E def \in FuncDefsOf(Names, MaxFields, MaxReturns) : ParseFuncDef(def)
    \/ \E def \in VarDefsOf(Names), in_contract \in BOOLEAN :
            ParseVarDef(def, in_contract)
    \/ \E def \in TyDefsOf(Names) : ParseTyDef(def)
    \/ \E def \in ContractDefsOf(Names, MaxContractParts) : ParseContractDef(def)

Next ==
    \/ Lower
    \/ \E sup \in SourceUnitParts, file_no \in FileNos,
          parent \in 0..(Len(graph.nodes) - 1) :
            ParseSourceUnitPart(sup, file_no, 0, parent)
    \/ \E src \in Sources, file_no \in FileNos : Parse(src, file_no)

Spec == Init /\ [][Next]_vars

(* The GraphLike operations called directly, as any holder of the analyzer  *)
(* may: add_node, add_edge and an assignment through node_mut.              *)

RawNodes == {Node_Unresolved(n) : n \in Names} \cup {Node_Struct(n) : n \in Names}

AddNode(n) == Ready(MaxNodes) /\ Commit("add_node", n, add_node(Self, n))

AddEdge(from_node, to_node, edge) ==
    Ready(MaxNodes) /\ Len(graph.edges) < MaxEdges
        /\ Commit("add_edge", [from |-> from_node, to |-> to_node, edge |-> edge],
                  R(add_edge(Self, from_node, to_node, edge), 0))

NodeMut(h, n) ==
    Ready(MaxNodes) /\ Commit("node_mut", [node |-> h, value |-> n],
                              R(node_mut(Self, h, n), 0))

NextGraph ==
    \/ Lower
    \/ \E n \in RawNodes : AddNode(n)
    \/ \E f \in 0..Len(graph.nodes), t \in 0..Len(graph.nodes) : AddEdge(f, t, "Part")
    \/ \E h \in 0..Len(graph.nodes), n \in RawNodes : NodeMut(h, n)

SpecGraph == Init /\ [][NextGraph]_vars

(* ============================== claims ================================ *)

DeclOps ==
    {"parse_contract_def", "parse_struct_def", "parse_enum_def", "parse_err_def",
     "parse_func_def", "parse_var_def", "parse_ty_def"}

\* The declarations whose lowering looks the name up before adding a node.
RewriteOps == {"parse_struct_def", "parse_enum_def", "parse_func_def"}

DeclKind(op) ==
    CASE op = "parse_contract_def" -> "Contract"
      [] op = "parse_struct_def" -> "Struct"
      [] op = "parse_enum_def" -> "Enum"
      [] op = "parse_err_def" -> "Error"
      [] op = "parse_func_def" -> "Function"
      [] op = "parse_var_def" -> "Var"
      [] op = "parse_ty_def" -> "Ty"

\* The name declared by the last operation (a declaration that did not panic).
LastName ==
    CASE last.op = "parse_var_def" -> last.arg.def.name
      [] last.op = "parse_func_def" -> last.arg.name[1]
      [] OTHER -> last.arg.name

\* Before the last operation the name table mapped n to an Unresolved node.
HadPlaceholder(n) ==
    /\ n \in DOMAIN prev.user_types
    /\ prev.graph.nodes[prev.user_types[n] + 1].kind = "Unresolved"

\* Before the last operation the name table mapped n to a resolved node.
HadDeclaration(n) ==
    /\ n \in DOMAIN prev.user_types
    /\ prev.graph.nodes[prev.user_types[n] + 1].kind # "Unresolved"

IsUnresolved(nd, n) == nd.kind = "Unresolved" /\ nd.name = n

\* C1: over add_node, add_edge, node_mut, parse_expr and the lowering of
\* declarations the number of nodes and the number of edges never decrease, and
\* every handle issued before an operation still dereferences after it.
C1_AppendOnly ==
    /\ Len(graph.nodes) >= Len(prev.graph.nodes)
    /\ Len(graph.edges) >= Len(prev.graph.edges)
    /\ \A h \in 0..(Len(prev.graph.nodes) - 1) : has_node(Self, h)

\* A declaration was lowered onto a node that already carried an edge.
C1_Witness ==
    /\ last.op = "parse_enum_def"
    /\ ~panicked
    /\ last.arg.name \in DOMAIN prev.user_types
    /\ Len(prev.graph.edges) > 0
    /\ graph.nodes[last.ret + 1].kind = "Enum"

\* C2: for every declaration kind, lowering the declaration of a name that the
\* name table maps to a placeholder at h rewrites node h into the declaration,
\* returns h and leaves no Unresolved node for the name.
C2_EveryKindRewritesPlaceholder ==
    (last.op \in DeclOps /\ ~panicked /\ HadPlaceholder(LastName)) =>
        LET h == prev.user_types[LastName] IN
        /\ last.ret = h
        /\ graph.nodes[h + 1].kind = DeclKind(last.op)
        /\ \A i \in DOMAIN graph.nodes : ~IsUnresolved(graph.nodes[i], LastName)

\* C3: parse_struct_def, parse_enum_def and parse_func_def on a name mapped to
\* a placeholder at h return h, keep the name mapped to h, turn node h into the
\* declaration, add no node for the declaration itself and leave every edge
\* that existed before with the endpoints it had.
C3_PlaceholderRewrittenInPlace ==
    (last.op \in RewriteOps /\ ~panicked /\ HadPlaceholder(LastName)) =>
        LET h == prev.user_types[LastName] IN
        /\ last.ret = h
        /\ LastName \in DOMAIN user_types
        /\ user_types[LastName] = h
        /\ graph.nodes[h + 1].kind = DeclKind(last.op)
        /\ \A i \in (Len(prev.graph.nodes) + 1)..Len(graph.nodes) :
               graph.nodes[i].kind # DeclKind(last.op)
        /\ Len(graph.edges) >= Len(prev.graph.edges)
        /\ \A i \in DOMAIN prev.graph.edges : graph.edges[i] = prev.graph.edges[i]

\* A struct with a field was lowered onto a placeholder that had an edge.
C3_Witness ==
    /\ last.op = "parse_struct_def"
    /\ ~panicked
    /\ HadPlaceholder(LastName)
    /\ Len(last.arg.fields) > 0
    /\ \E i \in DOMAIN prev.graph.edges :
           \/ prev.graph.edges[i].to = prev.user_types[LastName]
           \/ prev.graph.edges[i].from = prev.user_types[LastName]

\* C4: when the name table maps the declared name to a node that is already a
\* resolved declaration, parse_struct_def, parse_enum_def and parse_func_def
\* create a fresh node and leave the existing node as it was.
C4_ResolvedNeverOverwritten ==
    (last.op \in RewriteOps /\ ~panicked /\ HadDeclaration(LastName)) =>
        LET h == prev.user_types[LastName] IN
        /\ last.ret # h
        /\ graph.nodes[h + 1] = prev.graph.nodes[h + 1]

\* C5: parse_expr on an identifier not in the name table adds exactly one
\* Unresolved node and registers the name to it; on an identifier in the name
\* table it returns the registered handle and changes neither the graph nor
\* the tables; and the graph never holds two Unresolved nodes for one name.
C5_ReferenceInterning ==
    /\ (last.op = "parse_expr" /\ last.arg.k = "Variable") =>
           LET n == last.arg.name IN
           IF n \in DOMAIN prev.user_types
           THEN /\ last.ret = prev.user_types[n]
                /\ graph = prev.graph
                /\ user_types = prev.user_types
                /\ builtins = prev.builtins
                /\ dyn_builtins = prev.dyn_builtins
           ELSE /\ graph.nodes = Append(prev.graph.nodes, Node_Unresolved(n))
                /\ graph.edges = prev.graph.edges
                /\ last.ret = Len(prev.graph.nodes)
                /\ user_types = Insert(prev.user_types, n, last.ret)
    /\ \A n \in Names :
           Cardinality({i \in DOMAIN graph.nodes : IsUnresolved(graph.nodes[i], n)}) <= 1

\* A second reference to a name that is still unresolved.
C5_Witness ==
    /\ last.op = "parse_expr"
    /\ last.arg.k = "Variable"
    /\ last.arg.name \in DOMAIN prev.user_types
    /\ IsUnresolved(graph.nodes[last.ret + 1], last.arg.name)

\* The literal's value: the mantissa times ten to the exponent.
number_literal_scaled(int, exp) ==
    IF exp # <<>> THEN from_dec_str(int) * pow(10, from_dec_str(exp))
    ELSE from_dec_str(int)

SupportedParts ==
    {"ContractDefinition", "StructDefinition", "EnumDefinition", "ErrorDefinition",
     "VariableDefinition", "FunctionDefinition", "TypeDefinition"}

\* An expression with no lowering rule: not a type, identifier, array subscript
\* or number literal, or a type (or array element type) with no builtin.
UnsupportedExpr(e) ==
    \/ e.k = "Other"
    \/ e.k = "Type" /\ try_from_ty(e.ty) = None
    \/ /\ e.k = "ArraySubscript"
       /\ e.index = None
       /\ e.inner.k = "Type"
       /\ try_from_ty(e.inner.ty) = None

\* C6: lowering an unsupported source unit part, contract part or expression
\* completes without aborting, and for an expression the handle returned is
\* that of an Unresolved node.
C6_UnsupportedYieldsUnresolved ==
    /\ (last.op = "parse_source_unit_part" /\ last.arg.sup.p \notin SupportedParts)
           => ~panicked
    /\ (/\ last.op = "parse_contract_def"
        /\ \E i \in DOMAIN last.arg.parts : last.arg.parts[i].p \notin SupportedParts)
           => ~panicked
    /\ (last.op = "parse_expr" /\ UnsupportedExpr(last.arg)) =>
           /\ ~panicked
           /\ has_node(Self, last.ret)
           /\ node(Self, last.ret).kind = "Unresolved"

\* C7: parse aborts on a parser failure with the graph and the tables as they
\* were, and on parser success returns Some(h), h the SourceUnit(file_no) node
\* it added.
C7_ParseAllOrNothing ==
    (last.op = "parse") =>
        IF last.arg.src.ok
        THEN /\ ~panicked
             /\ last.ret = Some(Len(prev.graph.nodes))
             /\ has_node(Self, Len(prev.graph.nodes))
             /\ node(Self, Len(prev.graph.nodes)) = Node_SourceUnit(last.arg.file_no)
        ELSE /\ panicked
             /\ graph = prev.graph
             /\ builtins = prev.builtins
             /\ dyn_builtins = prev.dyn_builtins
             /\ user_types = prev.user_types

\* C8: parse_expr on a number literal adds one Concrete node, a 256-bit unsigned
\* integer whose value is the mantissa times ten to the exponent.
C8_LiteralExact ==
    (last.op = "parse_expr" /\ last.arg.k = "NumberLiteral") =>
        /\ ~panicked
        /\ graph.nodes =
               Append(prev.graph.nodes,
                      Node_Concrete(256, number_literal_scaled(last.arg.int,
                                                               last.arg.exp)))

ContainmentEdges == {"Field", "ErrorParam", "FunctionParam", "FunctionReturn"}

\* The items of a list of Option<item> that are Some.
Present(items) == SelectSeq(items, LAMBDA x : x # None)

Children(kind, items) == [i \in DOMAIN items |-> [kind |-> kind, item |-> items[i]]]

\* The child nodes the last declaration asks for, in declaration order.
ExpectedChildren ==
    CASE last.op = "parse_struct_def" -> Children("Field", last.arg.fields)
      [] last.op = "parse_err_def" -> Children("ErrorParam", last.arg.fields)
      [] last.op = "parse_func_def" ->
            [i \in DOMAIN Present(last.arg.params) |->
                [kind |-> "FunctionParam", item |-> Present(last.arg.params)[i][1]]]
            \o [i \in DOMAIN Present(last.arg.returns) |->
                [kind |-> "FunctionReturn", item |-> Present(last.arg.returns)[i][1]]]

\* The containment edges the last operation added, in the order it added them.
NewContainmentEdges ==
    SelectSeq(SubSeq(graph.edges, Len(prev.graph.edges) + 1, Len(graph.edges)),
              LAMBDA e : e.edge \in ContainmentEdges)

\* The handle a type expression of an item resolves to once it is lowered.
TypeHandle(ty) == IF ty.k = "Type" THEN builtins[ty.ty] ELSE user_types[ty.name]

\* C9: lowering a struct, an error or a function adds one child node per field,
\* parameter and return, with increasing handles in declaration order
\* (parameters before returns), and for each child exactly one edge, of the
\* matching kind, from the child to the declaration's node, in that order.
C9_ChildrenInOrder ==
    (last.op \in {"parse_struct_def", "parse_err_def", "parse_func_def"} /\ ~panicked)
    => LET want == ExpectedChildren
           got == NewContainmentEdges
       IN  /\ Len(got) = Len(want)
           /\ \A i \in DOMAIN got :
                 /\ got[i].edge = want[i].kind
                 /\ got[i].to = last.ret
                 /\ got[i].from >= Len(prev.graph.nodes)
                 /\ has_node(Self, got[i].from)
                 /\ node(Self, got[i].from) =
                        Node_Item(want[i].kind, TypeHandle(want[i].item.ty),
                                  want[i].item.name)
                 /\ Cardinality({k \in DOMAIN graph.edges :
                                    graph.edges[k].from = got[i].from}) = 1
           /\ \A i, j \in DOMAIN got : i < j => got[i].from < got[j].from
           /\ Cardinality({h \in (Len(prev.graph.nodes) + 1)..Len(graph.nodes) :
                              graph.nodes[h].kind \in ContainmentEdges}) = Len(want)

\* A function with two parameters of different types and a return was lowered.
C9_Witness ==
    /\ last.op = "parse_func_def"
    /\ ~panicked
    /\ Len(Present(last.arg.params)) = 2
    /\ Present(last.arg.params)[1] # Present(last.arg.params)[2]
    /\ Len(Present(last.arg.returns)) = 1

\* C10: when a function's body is handed to the context builder the function's
\* node exists, the name table maps the function's name to it and the edges of
\* all its parameters and returns are in the graph; an identifier of the body
\* that names the function resolves to the function's handle and adds no node.
C10_BodyAfterSignature ==
    \A i \in DOMAIN log :
        log[i].ev = "body" =>
            LET b == log[i]
                h == b.func
                n == b.def.name[1]
                np == Len(Present(b.def.params))
                k == np + Len(Present(b.def.returns))
                m == Len(b.graph.edges)
            IN  /\ h < Len(b.graph.nodes)
                /\ b.graph.nodes[h + 1] = Node_Function(n)
                /\ n \in DOMAIN b.user_types
                /\ b.user_types[n] = h
                /\ m >= k
                /\ \A j \in 1..k :
                      LET e == b.graph.edges[m - k + j] IN
                      /\ e.to = h
                      /\ e.edge = IF j <= np THEN "FunctionParam" ELSE "FunctionReturn"
                      /\ e.from < Len(b.graph.nodes)
                      /\ b.graph.nodes[e.from + 1].kind = e.edge
                /\ \A j \in (i + 1)..Len(log) :
                      (/\ \A x \in (i + 1)..j : log[x].ev = "ref"
                       /\ log[j].name = n)
                      => log[j].ret = h /\ ~log[j].fresh

\* A function with a parameter whose body names the function itself.
C10_Witness ==
    /\ last.op = "parse_func_def"
    /\ ~panicked
    /\ Len(Present(last.arg.params)) >= 1
    /\ last.arg.body = Some(<<last.arg.name[1]>>)
    /\ Len(log) = 2
    /\ log[2].ret = last.ret

\* The kinds of node a declaration is lowered to.
DeclNodeKinds == {"Contract", "Function", "Struct", "Enum", "Error", "Var", "Ty"}

\* In graph g, taken while the last operation ran, every declaration the
\* operation lowers is already in place: each declaration node of the final
\* graph is in g, with the same content.
AllDeclarationsLowered(g) ==
    \A i \in DOMAIN graph.nodes :
        graph.nodes[i].kind \in DeclNodeKinds =>
            /\ i <= Len(g.nodes)
            /\ g.nodes[i] = graph.nodes[i]

\* In graph g every part of the source unit the last parse was given has its
\* SourceUnitPart node under the SourceUnit node the parse returned.
AllPartsEntered(g) ==
    \A k \in 1..Len(last.arg.src.unit) :
        \E i \in DOMAIN g.nodes :
            /\ i > last.ret[1] + 1
            /\ g.nodes[i] = Node_SourceUnitPart(last.arg.file_no, k - 1)

\* C11: a function's body is handed to the context builder only after every
\* declaration of every part of the source unit has been lowered - the parts
\* that follow the function included.
C11_BodyParsingDelayed ==
    (last.op = "parse" /\ last.arg.src.ok /\ ~panicked) =>
        \A i \in DOMAIN log :
            log[i].ev = "body" =>
                /\ AllPartsEntered(log[i].graph)
                /\ AllDeclarationsLowered(log[i].graph)

\* The claim's case when the function is the last declaration of its unit:
\* the body is then walked with every declaration in the graph.
C11_LastFunction ==
    (/\ last.op = "parse" /\ last.arg.src.ok /\ ~panicked
     /\ \A k \in 1..(Len(last.arg.src.unit) - 1) :
           last.arg.src.unit[k].p # "FunctionDefinition") =>
        \A i \in DOMAIN log :
            log[i].ev = "body" =>
                /\ AllPartsEntered(log[i].graph)
                /\ AllDeclarationsLowered(log[i].graph)

\* A parse of two parts, a function with a body and a declaration after it.
C11_Case ==
    /\ last.op = "parse" /\ last.arg.src.ok /\ ~panicked
    /\ Len(last.arg.src.unit) = 2
    /\ last.arg.src.unit[1].p = "FunctionDefinition"
    /\ last.arg.src.unit[1].def.body # None
    /\ last.arg.src.unit[2].p = "EnumDefinition"

\* C12: every entry (b -> h) of builtins has Builtin(b) at h, every entry
\* (d -> h) of dyn_builtins has DynBuiltin(d) at h, no builtin type has two
\* Builtin nodes, and builtin_or_add of a type already in the table returns
\* the handle of the table and leaves the analyzer as it was.
C12_BuiltinsInterned ==
    /\ \A b \in DOMAIN builtins :
          /\ has_node(Self, builtins[b])
          /\ graph.nodes[builtins[b] + 1] = Node_Builtin(b)
    /\ \A d \in DOMAIN dyn_builtins :
          /\ has_node(Self, dyn_builtins[d])
          /\ graph.nodes[dyn_builtins[d] + 1] = Node_DynBuiltin(d)
    /\ \A i, j \in DOMAIN graph.nodes :
          (/\ graph.nodes[i].kind = "Builtin"
           /\ graph.nodes[j].kind = "Builtin"
           /\ graph.nodes[i].ty = graph.nodes[j].ty) => i = j
    /\ (last.op = "builtin_or_add" /\ last.arg \in DOMAIN prev.builtins) =>
          /\ last.ret = prev.builtins[last.arg]
          /\ graph = prev.graph
          /\ builtins = prev.builtins
          /\ dyn_builtins = prev.dyn_builtins
          /\ user_types = prev.user_types

\* builtin_or_add of a type that an earlier operation had interned.
C12_Witness ==
    /\ last.op = "builtin_or_add"
    /\ last.arg \in DOMAIN prev.builtins
    /\ last.ret = prev.builtins[last.arg]
    /\ Len(graph.nodes) = 1
    /\ ~panicked

\* An array type interned next to the builtin type of its elements.
C12_WitnessDyn ==
    /\ ~panicked
    /\ DOMAIN builtins # {}
    /\ DOMAIN dyn_builtins # {}

====
